---------------------------- MODULE Spec2Model ----------------------------
(***************************************************************************)
(* BlueShare session core (src/blueshare/core/blueshare.c): NSIGII         *)
(* consensus, topology selection, fair bandwidth, cost sharing, payment    *)
(* and compliance, as a state machine over one session and its device      *)
(* list.                                                                   *)
(*                                                                         *)
(* Numbers.  C enums are their integer values.  uint8_t wraps modulo 2^8.  *)
(* uint64_t is four 16-bit limbs (little endian) and wraps modulo 2^64.    *)
(* double is a binary floating-point number m * 2^e with a MantBits-bit    *)
(* significand and round-to-nearest-even after every operation, plus NaN   *)
(* and +Inf; every value of the program is non-negative, so no sign is     *)
(* kept.  IEEE-754 double has 53 significand bits; MantBits is the width   *)
(* the model is run at.                                                    *)
(*                                                                         *)
(* Node-Zero identities (src/blueshare/core/zero.c), a program of its own: *)
(* ZeroIDs, keys, derived ids, challenge-response proofs and the identity  *)
(* files.  SHA-256 and HMAC-SHA-256 are collision-free constructors over   *)
(* symbolic byte arrays, ArrayBytes bytes of each 32-byte array being      *)
(* kept; RAND_bytes and time are inputs.                                   *)
(***************************************************************************)
EXTENDS Integers, Sequences, FiniteSets

\* ------------------------------------------------------------------ bounds
MaxDevices == 3
MaxDeviceCount == 7
MantBits == 8
MainMaxDevices == 4
ArrayBytes == 2
MaxIds == 3
MaxProofs == 1
MaxTime == 1

\* ------------------------------------------------------------------- enums
STATE_NO == 0
STATE_YES == 1
STATE_MAYBE == 2
STATE_EPSILON == 3

TOPOLOGY_STAR == 0
TOPOLOGY_BUS == 1
TOPOLOGY_MESH == 2
TOPOLOGY_HYBRID == 3

ROLE_HOST == 0
ROLE_CLIENT == 1
ROLE_RELAY == 2
ROLE_OBSERVER == 3

PAYMENT_PENDING == 0
PAYMENT_AUTHORIZED == 1
PAYMENT_PROCESSING == 2
PAYMENT_SETTLED == 3
PAYMENT_FAILED == 4

TrinaryStates == {STATE_NO, STATE_YES, STATE_MAYBE, STATE_EPSILON}
Topologies == {TOPOLOGY_STAR, TOPOLOGY_BUS, TOPOLOGY_MESH, TOPOLOGY_HYBRID}
Roles == {ROLE_HOST, ROLE_CLIENT, ROLE_RELAY, ROLE_OBSERVER}
PaymentStates ==
    {PAYMENT_PENDING, PAYMENT_AUTHORIZED, PAYMENT_PROCESSING, PAYMENT_SETTLED,
     PAYMENT_FAILED}

\* ------------------------------------------------------- integer arithmetic
Pow2(n) == 2 ^ n

RECURSIVE BitLen(_)
BitLen(n) == IF n = 0 THEN 0 ELSE 1 + BitLen(n \div 2)

\* uint8_t: the value an int initialiser is stored as.
U8(v) == v % 256

LimbBase == 2 ^ 16

\* uint64_t as limbs <<l0, l1, l2, l3>>, value = sum of l_i * 2^(16 i).
U64(l0, l1, l2, l3) == <<l0, l1, l2, l3>>

\* uint64_t addition: limb-wise with carry, the carry out of the top limb is
\* dropped (wrap modulo 2^64).
U64Add(a, b) ==
    LET s0 == a[1] + b[1]
        s1 == a[2] + b[2] + (s0 \div LimbBase)
        s2 == a[3] + b[3] + (s1 \div LimbBase)
        s3 == a[4] + b[4] + (s2 \div LimbBase)
    IN  <<s0 % LimbBase, s1 % LimbBase, s2 % LimbBase, s3 % LimbBase>>

\* ---------------------------------------------------------------- double
FNaN == [k |-> "nan", m |-> 0, e |-> 0]
FInf == [k |-> "inf", m |-> 0, e |-> 0]
FZero == [k |-> "num", m |-> 0, e |-> 0]

\* The value (n + f) * 2^e, 0 <= f < 1 and f > 0 exactly when sticky, rounded
\* to MantBits significant bits, ties to even.  With sticky, n carries at
\* least MantBits + 2 bits.
RoundNE(n, e, sticky) ==
    LET k == BitLen(n) IN
    IF n = 0 THEN FZero
    ELSE IF k <= MantBits
    THEN [k |-> "num", m |-> n * Pow2(MantBits - k), e |-> e - (MantBits - k)]
    ELSE LET s == k - MantBits
             q == n \div Pow2(s)
             r == n % Pow2(s)
             half == Pow2(s - 1)
             up == r > half \/ (r = half /\ (sticky \/ q % 2 = 1))
             q2 == IF up THEN q + 1 ELSE q
         IN  IF q2 = Pow2(MantBits)
             THEN [k |-> "num", m |-> Pow2(MantBits - 1), e |-> e + s + 1]
             ELSE [k |-> "num", m |-> q2, e |-> e + s]

\* (double) of a small non-negative integer, and of a size_t.
FromNat(n) == RoundNE(n, 0, FALSE)

\* The double nearest to the decimal literal num / den.
FromRatio(num, den) ==
    LET s == MantBits + 2 + BitLen(den) - BitLen(num)
        n == num * Pow2(s)
    IN  RoundNE(n \div den, 0 - s, n % den # 0)

\* (double) of a uint64_t.
U64ToDouble(u) ==
    LET t == IF u[4] # 0 THEN 4 ELSE IF u[3] # 0 THEN 3 ELSE IF u[2] # 0 THEN 2 ELSE 1
    IN  IF t = 1 THEN FromNat(u[1])
        ELSE RoundNE(u[t] * 32768 + (u[t - 1] \div 2),
                     16 * (t - 2) + 1,
                     u[t - 1] % 2 = 1 \/ \E i \in 1..(t - 2) : u[i] # 0)

FAdd(a, b) ==
    IF a.k = "nan" \/ b.k = "nan" THEN FNaN
    ELSE IF a.k = "inf" \/ b.k = "inf" THEN FInf
    ELSE IF a.m = 0 THEN b
    ELSE IF b.m = 0 THEN a
    ELSE LET hi == IF a.e >= b.e THEN a ELSE b
             lo == IF a.e >= b.e THEN b ELSE a
         IN  IF hi.e - lo.e > MantBits + 1 THEN hi
             ELSE RoundNE(hi.m * Pow2(hi.e - lo.e) + lo.m, lo.e, FALSE)

FMul(a, b) ==
    IF a.k = "nan" \/ b.k = "nan" THEN FNaN
    ELSE IF a.k = "inf" \/ b.k = "inf"
    THEN IF (a.k = "num" /\ a.m = 0) \/ (b.k = "num" /\ b.m = 0) THEN FNaN ELSE FInf
    ELSE RoundNE(a.m * b.m, a.e + b.e, FALSE)

FDiv(a, b) ==
    IF a.k = "nan" \/ b.k = "nan" THEN FNaN
    ELSE IF a.k = "inf" THEN (IF b.k = "inf" THEN FNaN ELSE FInf)
    ELSE IF b.k = "inf" THEN FZero
    ELSE IF b.m = 0 THEN (IF a.m = 0 THEN FNaN ELSE FInf)
    ELSE IF a.m = 0 THEN FZero
    ELSE LET n == a.m * Pow2(MantBits + 2)
         IN  RoundNE(n \div b.m, a.e - b.e - (MantBits + 2), n % b.m # 0)

\* C's == on doubles: NaN equals nothing, itself included.
FEq(a, b) == a.k # "nan" /\ b.k # "nan" /\ a = b


\* ------------------------------------------------------------------- state
VARIABLES
    devices,    \* the session's device list, in list (next-pointer) order
    session,    \* blueshare_session_t
    pc,         \* position of main, or "api" when operations are called directly
    last,       \* the last operation called: its name, return value, argument, message
    gate,       \* what each admission gate last returned for the session (-1: not called)
    ctx,        \* zero.c: the zero_context_t
    nodes,      \* zero.c: the blueshare_device_t records initialised so far
    ids,        \* zero.c: the zero_id_t records in memory
    proofs,     \* zero.c: the zero_proof_t records created, each with the zid it was made over
    issued,     \* zero.c: the challenge buffer after the last create_challenge (<<>>: none yet)
    files,      \* zero.c: what each path of the file system holds
    now,        \* zero.c: what time(NULL) returns
    zlast       \* zero.c: the last operation called, its arguments and its result

shareVars == <<devices, session, pc, last, gate>>
zeroVars == <<ctx, nodes, ids, proofs, issued, files, now, zlast>>
vars == <<devices, session, pc, last, gate,
          ctx, nodes, ids, proofs, issued, files, now, zlast>>

\* device_node_t as the initialisers of main build it: the fields not named
\* are zero (consent STATE_NO, payment PAYMENT_PENDING, balance 0.0).
NewDevice(role, rssi, bandwidth, sent, received) ==
    [role |-> role, rssi |-> U8(rssi), bandwidth_mbps |-> bandwidth,
     bytes_sent |-> sent, bytes_received |-> received,
     balance_usd |-> FZero, payment_status |-> PAYMENT_PENDING,
     consent |-> STATE_NO]

\* blueshare_session_t as main initialises it: is_active = 1, the rest zero.
NewSession(count) ==
    [device_count |-> count, topology |-> TOPOLOGY_STAR,
     total_bandwidth_mbps |-> FZero, fair_share_mbps |-> FZero,
     total_cost_usd |-> FZero, cost_per_device |-> FZero,
     is_active |-> 1,
     transparency_verified |-> 0, fairness_verified |-> 0, privacy_verified |-> 0]

NoCall == [op |-> "none", ret |-> 0, arg |-> 0, msg |-> "", sat |-> <<0, 0, 0, 0>>]
NoGate == [consensus |-> -1, compliance |-> -1]

\* -------------------------------------------------------- NSIGII consensus
\* request_device_consent: rssi is a uint8_t, promoted to int for both
\* comparisons.  Returns the consent state it stored.
request_device_consent(device) ==
    IF device.rssi > -70 THEN STATE_YES
    ELSE IF device.rssi < -90 THEN STATE_NO
    ELSE STATE_MAYBE

\* The counting loop of verify_network_consensus.
\* The loop started at session->devices->next: the head is not counted.
CountConsent_skips_head(devs, st) ==
    Cardinality({i \in DOMAIN devs : i > 1 /\ devs[i].consent = st})

CountConsent(devs, st) == Cardinality({i \in DOMAIN devs : devs[i].consent = st})

\* The branch verify_network_consensus leaves by, as the message it prints.
consensus_message(sess, devs) ==
    IF CountConsent(devs, STATE_NO) > 0 THEN "REJECTED"
    ELSE IF CountConsent(devs, STATE_YES) >= sess.device_count \div 2 THEN "VERIFIED"
    ELSE "PENDING"

\* verify_network_consensus without the test of no_count (lines 183-186).
verify_network_consensus_no_veto(sess, devs) ==
    IF CountConsent(devs, STATE_YES) >= sess.device_count \div 2 THEN 1 ELSE 0

verify_network_consensus(sess, devs) ==
    IF CountConsent(devs, STATE_NO) > 0 THEN 0
    ELSE IF CountConsent(devs, STATE_YES) >= sess.device_count \div 2 THEN 1
    ELSE 0

\* ---------------------------------------------------------------- topology
HostCount(devs) == Cardinality({i \in DOMAIN devs : devs[i].role = ROLE_HOST})

\* determine_topology with device_count < 3 for device_count <= 3 (line 223).
determine_topology_off_by_one(device_count, devs) ==
    IF HostCount(devs) = 0 THEN TOPOLOGY_STAR
    ELSE IF device_count < 3 /\ HostCount(devs) = 1 THEN TOPOLOGY_STAR
    ELSE IF device_count <= 5 /\ HostCount(devs) <= 2 THEN TOPOLOGY_BUS
    ELSE IF HostCount(devs) >= 2 THEN TOPOLOGY_MESH
    ELSE TOPOLOGY_HYBRID

determine_topology(device_count, devs) ==
    IF HostCount(devs) = 0 THEN TOPOLOGY_STAR
    ELSE IF device_count <= 3 /\ HostCount(devs) = 1 THEN TOPOLOGY_STAR
    ELSE IF device_count <= 5 /\ HostCount(devs) <= 2 THEN TOPOLOGY_BUS
    ELSE IF HostCount(devs) >= 2 THEN TOPOLOGY_MESH
    ELSE TOPOLOGY_HYBRID

topology_message(devs) ==
    IF HostCount(devs) = 0 THEN "ERROR: No hosts available" ELSE "Selected"

\* --------------------------------------------------------------- bandwidth
\* total_available after the loop has visited devs[1..n], in list order.
RECURSIVE HostBandwidth(_, _)
HostBandwidth(devs, n) ==
    IF n = 0 THEN FZero
    ELSE IF devs[n].role = ROLE_HOST
    THEN FAdd(HostBandwidth(devs, n - 1), devs[n].bandwidth_mbps)
    ELSE HostBandwidth(devs, n - 1)

\* calculate_fair_bandwidth that also marks the session as fair.
calculate_fair_bandwidth_sets_fairness(sess, devs) ==
    LET total_available == HostBandwidth(devs, Len(devs)) IN
    [sess EXCEPT
        !.total_bandwidth_mbps = total_available,
        !.fair_share_mbps =
            FDiv(FMul(total_available, FromNat(2)), FromNat(sess.device_count)),
        !.fairness_verified = 1]

calculate_fair_bandwidth(sess, devs) ==
    LET total_available == HostBandwidth(devs, Len(devs)) IN
    [sess EXCEPT
        !.total_bandwidth_mbps = total_available,
        !.fair_share_mbps =
            FDiv(FMul(total_available, FromNat(2)), FromNat(sess.device_count))]


\* ------------------------------------------------------------ cost sharing
force_newtons == FromRatio(5, 4)
distance_meters == FromNat(15)
cosine_theta == FromRatio(866, 1000)
usd_per_joule == FromRatio(1, 100000)
work_per_mb == FMul(FMul(force_newtons, distance_meters), cosine_theta)

\* mb_used and device_cost of one device, as the loop body computes them.
mb_used(device) ==
    FDiv(U64ToDouble(U64Add(device.bytes_sent, device.bytes_received)),
         FMul(FromNat(1024), FromNat(1024)))

device_cost(device) == FMul(FMul(mb_used(device), work_per_mb), usd_per_joule)

\* session->total_cost_usd after the loop has visited devs[1..n], from the
\* value `start` it held before the loop.
RECURSIVE RunningCost(_, _, _)
RunningCost(devs, n, start) ==
    IF n = 0 THEN start
    ELSE FAdd(RunningCost(devs, n - 1, start), device_cost(devs[n]))

\* calculate_cost_sharing without the reset of total_cost_usd (line 289): the
\* loop adds to the total the previous run left.
calculate_cost_sharing_no_reset(sess, devs) ==
    LET total == RunningCost(devs, Len(devs), sess.total_cost_usd) IN
    [session |-> [sess EXCEPT
                    !.total_cost_usd = total,
                    !.cost_per_device = FDiv(total, FromNat(sess.device_count)),
                    !.transparency_verified = 1,
                    !.fairness_verified = 1],
     devices |-> [i \in DOMAIN devs |->
                    [devs[i] EXCEPT !.balance_usd = device_cost(devs[i])]]]

\* calculate_cost_sharing: the session and the device list it leaves.
calculate_cost_sharing(sess, devs) ==
    LET total == RunningCost(devs, Len(devs), FZero) IN
    [session |-> [sess EXCEPT
                    !.total_cost_usd = total,
                    !.cost_per_device = FDiv(total, FromNat(sess.device_count)),
                    !.transparency_verified = 1,
                    !.fairness_verified = 1],
     devices |-> [i \in DOMAIN devs |->
                    [devs[i] EXCEPT !.balance_usd = device_cost(devs[i])]]]

\* ----------------------------------------------------------------- payment
btc_per_usd == FDiv(FromNat(1), FromNat(40000))
satoshi_per_btc == FromNat(100000000)

\* (uint64_t) of a finite double: truncation toward zero.  Amounts are
\* balances, which are finite and far below 2^64.
DoubleToU64(f) ==
    IF f.k # "num" \/ f.m = 0 THEN U64(0, 0, 0, 0)
    ELSE IF f.e < 0
    THEN (IF 0 - f.e >= MantBits THEN U64(0, 0, 0, 0)
          ELSE U64(f.m \div Pow2(0 - f.e), 0, 0, 0))
    ELSE LET at == f.e \div 16
             v == f.m * Pow2(f.e % 16)
         IN  [i \in 1..4 |-> IF i = at + 1 THEN v % LimbBase
                             ELSE IF i = at + 2 THEN v \div LimbBase
                             ELSE 0]

amount_satoshi(amount_usd) ==
    DoubleToU64(FMul(FMul(amount_usd, btc_per_usd), satoshi_per_btc))

\* process_lightning_payment: the local payment record is dropped on return;
\* the device is left SETTLED and 1 is returned.
process_lightning_payment(device, amount_usd) ==
    [ret |-> 1, device |-> [device EXCEPT !.payment_status = PAYMENT_SETTLED]]

\* -------------------------------------------------------------- compliance
verify_constitutional_compliance(sess) ==
    [ret |-> IF sess.transparency_verified = 0 \/ sess.fairness_verified = 0
             THEN 0 ELSE 1,
     session |-> [sess EXCEPT !.privacy_verified = 1]]

\* ================================================================== zero.c
\* ------------------------------------------------------------ byte arrays
\* A value is a record [f, s, n, key, in]: a text (f = "str"), one outcome of
\* RAND_bytes (f = "rand"), or a digest (f = "sha256", "hmac") of the
\* concatenation `in` under the key `key`.  A uint8_t[32] array is
\* [of, len, size, x]: its first len bytes are the first bytes of the value
\* `of`, the others are zero (as `= {0}` leaves them), and byte i is xor-ed
\* with the mask x[i]; size is the number of bytes the piece has when it is
\* part of a concatenation.  The model keeps ArrayBytes bytes of every array.
Value(f, s, n, key, in) == [f |-> f, s |-> s, n |-> n, key |-> key, in |-> in]
Literal == Value("literal", "", 0, <<>>, <<>>)
NoMask == [i \in 1..ArrayBytes |-> 0]
Array(of) == [of |-> of, len |-> ArrayBytes, size |-> ArrayBytes, x |-> NoMask]
ZeroArray == [of |-> Literal, len |-> 0, size |-> ArrayBytes, x |-> NoMask]

\* a[i], for the == of C.
ByteAt(a, i) ==
    IF i <= a.len THEN [of |-> a.of, at |-> i, x |-> a.x[i]]
    ELSE [of |-> Literal, at |-> 0, x |-> a.x[i]]

\* The bytes of a C string (without its terminator), as one piece of a
\* concatenation.
Str(s, n) == <<Array(Value("str", s, n, <<>>, <<>>))>>

\* RAND_bytes(buf, 32) == 1: buf holds the outcome numbered n.
RAND_bytes(n) == Array(Value("rand", "", n, <<>>, <<>>))

\* SHA256(data, len, out) and HMAC(EVP_sha256(), key, 32, data, len, out, _):
\* digests of different inputs (or keys) are different values, and differ in
\* every byte kept.
SHA256(data) == Array(Value("sha256", "", 0, <<>>, data))
HMAC(key, data) == Array(Value("hmac", "", 0, <<key>>, data))

\* The first len bytes of src, as memcpy(dst, src, len) reads them.
Prefix(src, len) ==
    IF len = 0 \/ src.len = 0 THEN ZeroArray
    ELSE [of |-> src.of,
          len |-> IF len < src.len THEN len ELSE src.len,
          size |-> ArrayBytes,
          x |-> [i \in 1..ArrayBytes |-> IF i <= len THEN src.x[i] ELSE 0]]

\* The len bytes at src, as a piece of a concatenation.
Slice(src, len) == [Prefix(src, len) EXCEPT !.size = len]

\* ------------------------------------------------------------- structures
zero_id_t(version, hash, salt, created) ==
    [version |-> version, hash |-> hash, salt |-> salt, created |-> created]
zero_key_t(hash, timestamp, expiration) ==
    [hash |-> hash, timestamp |-> timestamp, expiration |-> expiration]
zero_proof_t(proof, challenge, timestamp) ==
    [proof |-> proof, challenge |-> challenge, timestamp |-> timestamp]
zero_context_t(algorithm, master_key, context_salt) ==
    [algorithm |-> algorithm, master_key |-> master_key, context_salt |-> context_salt]

\* `= {0}`
ZeroId == zero_id_t(0, ZeroArray, ZeroArray, 0)
ZeroKey == zero_key_t(ZeroArray, 0, 0)
ZeroProof == zero_proof_t(ZeroArray, ZeroArray, 0)

\* ------------------------------------------------------- phantom encoder
\* create_zero_id at time t, RAND_bytes giving the outcome rnd for the salt.
create_zero_id(c, device_id, rnd, t) ==
    zero_id_t(1, SHA256(device_id \o <<RAND_bytes(rnd)>>), RAND_bytes(rnd), t)

KeyLifetime == 86400 * 30

\* create_zero_key at time t.
create_zero_key(c, zid, t) ==
    zero_key_t(HMAC(c.master_key, <<zid.hash>>), t, t + KeyLifetime)

\* derive_zero_id with combined_len = sizeof(base_id->hash): the purpose is
\* left out of the HMAC input (line 140).
derive_zero_id_no_purpose(c, base_id, purpose, t) ==
    zero_id_t(base_id.version,
              HMAC(c.context_salt, <<base_id.hash>>),
              base_id.salt, t)

\* derive_zero_id at time t.
derive_zero_id(c, base_id, purpose, t) ==
    zero_id_t(base_id.version,
              HMAC(c.context_salt, <<base_id.hash>> \o purpose),
              base_id.salt, t)

\* create_challenge(challenge, 32), RAND_bytes giving the outcome rnd.
create_challenge(rnd) == RAND_bytes(rnd)

\* create_proof at time t.  challenge_len <= 32: a longer one overruns
\* proof.challenge.
create_proof(c, zid, challenge, challenge_len, t) ==
    zero_proof_t(SHA256(<<zid.hash, Slice(challenge, challenge_len)>>),
                 Prefix(challenge, challenge_len), t)

\* The loop of verify_proof: matches after the bytes 1..n have been compared.
RECURSIVE Matches(_, _, _)
Matches(a, b, n) ==
    IF n = 0 THEN 1
    ELSE IF ByteAt(a, n) = ByteAt(b, n) THEN Matches(a, b, n - 1) ELSE 0

\* verify_proof with the loop stopping after the first byte (line 219).
verify_proof_first_byte(c, proof, zid) ==
    LET expected_proof == SHA256(<<zid.hash, proof.challenge>>)
    IN  Matches(proof.proof, expected_proof, 1)

\* verify_proof with matches |= for matches &= (line 220): matches stays 1.
verify_proof_or(c, proof, zid) ==
    LET expected_proof == SHA256(<<zid.hash, proof.challenge>>)
    IN  IF Matches(proof.proof, expected_proof, ArrayBytes) = 1 THEN 1 ELSE 1

verify_proof(c, proof, zid) ==
    LET expected_proof == SHA256(<<zid.hash, proof.challenge>>)
    IN  Matches(proof.proof, expected_proof, ArrayBytes)


\* zero_context_t ctx = {0};
ZeroContext == zero_context_t("", ZeroArray, ZeroArray)

\* ---------------------------------------------------------------- storage
\* What a path holds: nothing (fopen "rb" fails), or the bytes fwrite wrote
\* from a zero_id_t or from a zero_key_t.
NoFile == [holds |-> "nothing", id |-> ZeroId, key |-> ZeroKey]
IdFile(zid) == [holds |-> "zero_id_t", id |-> zid, key |-> ZeroKey]
KeyFile(key) == [holds |-> "zero_key_t", id |-> ZeroId, key |-> key]

\* The paths main writes, and one in a directory that does not exist, where
\* fopen(filename, "wb") fails.
Paths == {"alice.zid", "alice.zid.key", "missing/alice.zid"}
CanCreate(path) == path # "missing/alice.zid"

NoZeroCall ==
    [op |-> "none", ret |-> 0, msg |-> "", path |-> "", on |-> 0, from |-> 0,
     flip |-> 0, purpose |-> <<>>, id |-> ZeroId, key |-> ZeroKey, proof |-> ZeroProof]

\* --------------------------------------------------------- identity files
\* What fread leaves in a record whose size is not the file's: bytes of the
\* other structure at the wrong offsets.
Misread(bytes) == Array(Value("misread", "", 0, <<>>, <<bytes>>))

\* save_zero_id, save_zero_key: the file the path holds afterwards.
save_zero_id(zid, filename, file) == IF CanCreate(filename) THEN IdFile(zid) ELSE file
save_zero_key(key, filename, file) == IF CanCreate(filename) THEN KeyFile(key) ELSE file

\* load_zero_id.  A file written from a zero_key_t is shorter than a
\* zero_id_t: fread fills the front of the record from it (version from the
\* first byte of the key's hash, here the outcome v) and created stays 0.
load_zero_id(file, v) ==
    IF file.holds = "nothing" THEN ZeroId
    ELSE IF file.holds = "zero_id_t" THEN file.id
    ELSE zero_id_t(v, Misread(file.key.hash), Misread(ZeroArray), 0)

\* load_zero_key.  A file written from a zero_id_t is longer than a
\* zero_key_t: fread takes its front (version, hash and the start of salt); the
\* time stamps come out of hash and salt bytes, here the outcome t.
load_zero_key(file, t) ==
    IF file.holds = "nothing" THEN ZeroKey
    ELSE IF file.holds = "zero_key_t" THEN file.key
    ELSE zero_key_t(Misread(file.id.hash), t, t)

\* ------------------------------------------------------ BlueShare devices
\* snprintf(device_id, 64, "blueshare-%ld-%s", time(NULL), device_name)
DeviceId(device_name, t) == Str(device_name, t)

\* snprintf(purpose, 128, "network-%s", network_name)
NetworkPurpose(network_name) ==
    <<Array(Value("str", "network-", 0, <<>>, Str(network_name, 0)))>>

blueshare_init_device(c, device_name, rnd, t) ==
    LET zid == create_zero_id(c, DeviceId(device_name, t), rnd, t) IN
    [device_id |-> DeviceId(device_name, t),
     device_name |-> device_name,
     zid |-> zid,
     key |-> create_zero_key(c, zid, t),
     auth_id |-> derive_zero_id(c, zid, Str("authentication", 0), t),
     network_id |-> derive_zero_id(c, zid, Str("network-joining", 0), t)]

blueshare_authenticate(c, device, rnd, t) ==
    LET challenge == create_challenge(rnd)
        proof == create_proof(c, device.auth_id, challenge, ArrayBytes, t)
    IN  verify_proof(c, proof, device.auth_id)

blueshare_join_network(c, device, network_name, rnd, t) ==
    LET network_specific_id ==
            derive_zero_id(c, device.network_id, NetworkPurpose(network_name), t)
        challenge == create_challenge(rnd)
        proof == create_proof(c, network_specific_id, challenge, ArrayBytes, t)
    IN  verify_proof(c, proof, network_specific_id)

\* ------------------------------------------------------------------- calls
\* One call of each operation on the session, and what it leaves behind.
CallRequestConsent(i) ==
    LET st == request_device_consent(devices[i]) IN
    /\ devices' = [devices EXCEPT ![i].consent = st]
    /\ last' = [NoCall EXCEPT !.op = "request_device_consent", !.ret = st, !.arg = i]
    /\ UNCHANGED <<session, gate>>
    /\ UNCHANGED zeroVars

CallVerifyConsensus ==
    LET r == verify_network_consensus(session, devices) IN
    /\ last' = [NoCall EXCEPT !.op = "verify_network_consensus", !.ret = r,
                              !.msg = consensus_message(session, devices)]
    /\ gate' = [gate EXCEPT !.consensus = r]
    /\ UNCHANGED <<devices, session>>
    /\ UNCHANGED zeroVars

CallCalculateFairBandwidth ==
    /\ session' = calculate_fair_bandwidth(session, devices)
    /\ last' = [NoCall EXCEPT !.op = "calculate_fair_bandwidth"]
    /\ UNCHANGED <<devices, gate>>
    /\ UNCHANGED zeroVars

CallCalculateCostSharing ==
    LET out == calculate_cost_sharing(session, devices) IN
    /\ session' = out.session
    /\ devices' = out.devices
    /\ last' = [NoCall EXCEPT !.op = "calculate_cost_sharing"]
    /\ UNCHANGED gate
    /\ UNCHANGED zeroVars

\* main passes the device's own balance_usd as the amount.
CallProcessPayment(i) ==
    LET out == process_lightning_payment(devices[i], devices[i].balance_usd) IN
    /\ devices' = [devices EXCEPT ![i] = out.device]
    /\ last' = [NoCall EXCEPT !.op = "process_lightning_payment", !.ret = out.ret,
                              !.arg = i,
                              !.sat = amount_satoshi(devices[i].balance_usd)]
    /\ UNCHANGED <<session, gate>>
    /\ UNCHANGED zeroVars

CallVerifyCompliance ==
    LET out == verify_constitutional_compliance(session) IN
    /\ session' = out.session
    /\ last' = [NoCall EXCEPT !.op = "verify_constitutional_compliance",
                              !.ret = out.ret]
    /\ gate' = [gate EXCEPT !.compliance = out.ret]
    /\ UNCHANGED devices
    /\ UNCHANGED zeroVars


\* ------------------------------------------------------------------ inputs
SeqsUpTo(S, n) == UNION {[1..k -> S] : k \in 0..n}

NoBytes == U64(0, 0, 0, 0)
MB(n) == U64(0, 16 * n, 0, 0)
HalfMB == U64(0, 8, 0, 0)
TwoTo63 == U64(0, 0, 0, 32768)

Api == [at |-> "api", i |-> 0]

\* The four devices of main.
Alice == NewDevice(ROLE_HOST, -65, FromNat(10), MB(5), MB(2))
Bob == NewDevice(ROLE_CLIENT, -72, FZero, MB(1), MB(10))
Carol == NewDevice(ROLE_CLIENT, -68, FZero, HalfMB, MB(3))
Dave == NewDevice(ROLE_RELAY, -95, FZero, MB(2), MB(1))
DemoDevices == {Alice, Bob, Carol, Dave}

\* Devices that have answered (or not answered) a consent request.
RssiInputs == {-65, -95}
ConsensusDevices ==
    {[NewDevice(ROLE_CLIENT, r, FZero, NoBytes, NoBytes) EXCEPT !.consent = c] :
        c \in TrinaryStates, r \in RssiInputs}

\* Devices of every role, each reporting a bandwidth.
BandwidthInputs == {FromNat(10), FromRatio(5, 2)}
TopologyDevices ==
    {NewDevice(role, -65, bw, NoBytes, NoBytes) : role \in Roles, bw \in BandwidthInputs}

\* Devices with measured usage.
SentInputs == {MB(1), TwoTo63}
ReceivedInputs == {MB(2), TwoTo63}
AccountingDevices ==
    {NewDevice(ROLE_CLIENT, -65, FZero, bs, br) : bs \in SentInputs, br \in ReceivedInputs}

\* Devices with measured usage whose payment stands in any payment_state_t.
PaymentDevices ==
    {[NewDevice(ROLE_CLIENT, -65, FZero, MB(1), MB(2)) EXCEPT !.payment_status = p] :
        p \in PaymentStates}

\* zero.c is a program of its own: while blueshare.c runs, nothing of it exists.
ZeroIdle ==
    /\ ctx = ZeroContext
    /\ nodes = <<>>
    /\ ids = <<>>
    /\ proofs = <<>>
    /\ issued = <<>>
    /\ files = [p \in Paths |-> NoFile]
    /\ now = 0
    /\ zlast = NoZeroCall

InitOver(S, n, start) ==
    /\ devices \in SeqsUpTo(S, n)
    /\ session = NewSession(Len(devices))
    /\ pc = start
    /\ last = NoCall
    /\ gate = NoGate
    /\ ZeroIdle

\* ----------------------------------------------------- operations, called
\* directly on a session (pc stays "api")
RequestConsent(i) == pc.at = "api" /\ CallRequestConsent(i) /\ UNCHANGED pc

VerifyConsensus == pc.at = "api" /\ CallVerifyConsensus /\ UNCHANGED pc

\* determine_topology takes device_count as an argument of its own; it
\* changes nothing.
DetermineTopology(device_count) ==
    /\ pc.at = "api"
    /\ last' = [NoCall EXCEPT !.op = "determine_topology",
                              !.ret = determine_topology(device_count, devices),
                              !.arg = device_count,
                              !.msg = topology_message(devices)]
    /\ UNCHANGED <<devices, session, pc, gate>>
    /\ UNCHANGED zeroVars

CalculateFairBandwidth == pc.at = "api" /\ CallCalculateFairBandwidth /\ UNCHANGED pc

CalculateCostSharing == pc.at = "api" /\ CallCalculateCostSharing /\ UNCHANGED pc

ProcessPayment(i) == pc.at = "api" /\ CallProcessPayment(i) /\ UNCHANGED pc

VerifyCompliance == pc.at = "api" /\ CallVerifyCompliance /\ UNCHANGED pc

InitConsensus == InitOver(ConsensusDevices, MaxDevices, Api)
NextConsensus ==
    \/ \E i \in DOMAIN devices : RequestConsent(i)
    \/ VerifyConsensus
SpecConsensus == InitConsensus /\ [][NextConsensus]_vars

InitTopology == InitOver(TopologyDevices, MaxDevices, Api)
NextTopology ==
    \/ \E device_count \in 0..MaxDeviceCount : DetermineTopology(device_count)
    \/ CalculateFairBandwidth
SpecTopology == InitTopology /\ [][NextTopology]_vars

InitAccounting == InitOver(AccountingDevices, MaxDevices, Api)
NextAccounting ==
    \/ CalculateCostSharing
    \/ \E i \in DOMAIN devices : ProcessPayment(i)
    \/ VerifyCompliance
SpecAccounting == InitAccounting /\ [][NextAccounting]_vars

InitPayment == InitOver(PaymentDevices, MaxDevices, Api)
NextPayment ==
    \/ CalculateCostSharing
    \/ \E i \in DOMAIN devices : ProcessPayment(i)
SpecPayment == InitPayment /\ [][NextPayment]_vars

\* Every operation on a session, in any order, on a session of a host and a
\* client of main.
NextSession ==
    \/ \E i \in DOMAIN devices : RequestConsent(i)
    \/ VerifyConsensus
    \/ DetermineTopology(session.device_count)
    \/ CalculateFairBandwidth
    \/ CalculateCostSharing
    \/ \E i \in DOMAIN devices : ProcessPayment(i)
    \/ VerifyCompliance
SpecSession ==
    InitOver({Alice, Bob}, Cardinality({Alice, Bob}), Api) /\ [][NextSession]_vars

\* -------------------------------------------------------------------- main
At(where, i) == [at |-> where, i |-> i]

\* Step 1: request_device_consent for each device in turn.
MainRequestConsent ==
    /\ pc.at = "consent"
    /\ pc.i <= Len(devices)
    /\ CallRequestConsent(pc.i)
    /\ pc' = At("consent", pc.i + 1)

\* if (!verify_network_consensus(&session)) return 1;
MainVerifyConsensus ==
    /\ pc.at = "consent"
    /\ pc.i > Len(devices)
    /\ CallVerifyConsensus
    /\ pc' = IF verify_network_consensus(session, devices) = 0
             THEN At("aborted", 1) ELSE At("topology", 0)

\* Step 2: session.topology = determine_topology(session.device_count, session.devices);
MainDetermineTopology ==
    /\ pc.at = "topology"
    /\ session' = [session EXCEPT
                     !.topology = determine_topology(session.device_count, devices)]
    /\ last' = [NoCall EXCEPT !.op = "determine_topology",
                              !.ret = determine_topology(session.device_count, devices),
                              !.arg = session.device_count,
                              !.msg = topology_message(devices)]
    /\ pc' = At("bandwidth", 0)
    /\ UNCHANGED <<devices, gate>>
    /\ UNCHANGED zeroVars

\* Step 3.
\* main with step 4 left out: payments follow the bandwidth allocation.
MainCalculateFairBandwidth_skips_cost ==
    /\ pc.at = "bandwidth"
    /\ CallCalculateFairBandwidth
    /\ pc' = At("payment", 2)

MainCalculateFairBandwidth ==
    /\ pc.at = "bandwidth"
    /\ CallCalculateFairBandwidth
    /\ pc' = At("cost", 0)

\* Step 4
MainCalculateCostSharing ==
    /\ pc.at = "cost"
    /\ CallCalculateCostSharing
    /\ pc' = At("payment", 2)

\* Step 5: process_lightning_payment for every device but the first.
MainProcessPayment ==
    /\ pc.at = "payment"
    /\ pc.i <= Len(devices)
    /\ CallProcessPayment(pc.i)
    /\ pc' = At("payment", pc.i + 1)

\* Step 6: if (!verify_constitutional_compliance(&session)) return 1; ... return 0;
MainVerifyCompliance ==
    /\ pc.at = "payment"
    /\ pc.i > Len(devices)
    /\ CallVerifyCompliance
    /\ pc' = IF verify_constitutional_compliance(session).ret = 0
             THEN At("aborted", 1) ELSE At("done", 0)

Init == InitOver(DemoDevices, MainMaxDevices, At("consent", 1))
Next ==
    \/ MainRequestConsent
    \/ MainVerifyConsensus
    \/ MainDetermineTopology
    \/ MainCalculateFairBandwidth
    \/ MainCalculateCostSharing
    \/ MainProcessPayment
    \/ MainVerifyCompliance
Spec == Init /\ [][Next]_vars


\* ========================================================= zero.c, called
\* -------------------------------------------------------------- inputs
RandomOutcomes == {1, 2}
DeviceNames == {"Alice-Phone", "Bob-Laptop"}
NetworkNames == {"blueshare-mesh-001"}
Purposes == {Str("authentication", 0), Str("network-joining", 0)}
     \cup {NetworkPurpose(n) : n \in NetworkNames}
TamperMasks == {1}
MisreadVersions == {1, 2}
MisreadTimes == {0, 1}

\* main: ctx = {0}, strcpy(ctx.algorithm, "SHA256-HMAC"), RAND_bytes for
\* master_key and for context_salt.
Contexts ==
    {zero_context_t("SHA256-HMAC", RAND_bytes(m), RAND_bytes(k)) :
        m \in RandomOutcomes, k \in RandomOutcomes}

\* A zero_id_t in memory: the record, and the call that made it (from = 0:
\* create_zero_id or load_zero_id; otherwise derive_zero_id of ids[from] for
\* purpose).
Made(zid, from, purpose) == [id |-> zid, from |-> from, purpose |-> purpose]

\* The zero_id_t records of a device after blueshare_init_device.
IdsOf(device) ==
    <<Made(device.zid, 0, <<>>),
      Made(device.auth_id, 1, Str("authentication", 0)),
      Made(device.network_id, 1, Str("network-joining", 0))>>

ZeroCall(op) == [NoZeroCall EXCEPT !.op = op]

ShareIdle ==
    /\ devices = <<>>
    /\ session = NewSession(0)
    /\ pc = Api
    /\ last = NoCall
    /\ gate = NoGate

\* -------------------------------------------------------------- actions
\* The clock moves between calls.
Tick ==
    /\ now < MaxTime
    /\ now' = now + 1
    /\ UNCHANGED <<shareVars, ctx, nodes, ids, proofs, issued, files, zlast>>

\* The clock passes the lifetime of a key issued up to now (KeyLifetime
\* seconds after key.timestamp) between two calls.
Elapse ==
    /\ now <= MaxTime
    /\ now' = now + KeyLifetime + 1
    /\ UNCHANGED <<shareVars, ctx, nodes, ids, proofs, issued, files, zlast>>

CreateZeroId(device_name, rnd) ==
    /\ Len(ids) < MaxIds
    /\ LET zid == create_zero_id(ctx, Str(device_name, 0), rnd, now) IN
       /\ ids' = Append(ids, Made(zid, 0, <<>>))
       /\ zlast' = [ZeroCall("create_zero_id") EXCEPT !.id = zid]
    /\ UNCHANGED <<shareVars, ctx, nodes, proofs, issued, files, now>>

DeriveZeroId(from, purpose) ==
    /\ Len(ids) < MaxIds
    /\ LET derived == derive_zero_id(ctx, ids[from].id, purpose, now) IN
       /\ ids' = Append(ids, Made(derived, from, purpose))
       /\ zlast' = [ZeroCall("derive_zero_id") EXCEPT
                       !.id = derived, !.from = from, !.purpose = purpose]
    /\ UNCHANGED <<shareVars, ctx, nodes, proofs, issued, files, now>>

CreateChallenge(rnd) ==
    /\ issued' = create_challenge(rnd)
    /\ zlast' = ZeroCall("create_challenge")
    /\ UNCHANGED <<shareVars, ctx, nodes, ids, proofs, files, now>>

\* create_proof(ctx, &zid, challenge, sizeof(challenge)) over the challenge
\* buffer, as both callers make it.
CreateProof(on) ==
    /\ issued # <<>>
    /\ Len(proofs) < MaxProofs
    /\ LET proof == create_proof(ctx, ids[on].id, issued, ArrayBytes, now) IN
       /\ proofs' = Append(proofs, [proof |-> proof, on |-> on])
       /\ zlast' = [ZeroCall("create_proof") EXCEPT !.proof = proof, !.on = on]
    /\ UNCHANGED <<shareVars, ctx, nodes, ids, issued, files, now>>

\* verify_proof(ctx, &proof, &zid) on the proof numbered `from`, as it was
\* made (flip = 0) or with byte `flip` of proof.proof altered.
VerifyProof(from, on, flip) ==
    \E mask \in TamperMasks :
        LET made == proofs[from].proof
            proof == IF flip = 0 THEN made
                     ELSE [made EXCEPT !.proof.x[flip] = mask]
        IN  /\ zlast' = [ZeroCall("verify_proof") EXCEPT
                            !.ret = verify_proof(ctx, proof, ids[on].id),
                            !.proof = proof, !.from = from, !.on = on,
                            !.flip = flip]
            /\ UNCHANGED <<shareVars, ctx, nodes, ids, proofs, issued, files, now>>

Authenticate(n, rnd) ==
    /\ zlast' = [ZeroCall("blueshare_authenticate") EXCEPT
                    !.ret = blueshare_authenticate(ctx, nodes[n], rnd, now),
                    !.on = n]
    /\ UNCHANGED <<shareVars, ctx, nodes, ids, proofs, issued, files, now>>

JoinNetwork(n, network_name, rnd) ==
    /\ zlast' = [ZeroCall("blueshare_join_network") EXCEPT
                    !.ret = blueshare_join_network(ctx, nodes[n], network_name, rnd, now),
                    !.on = n, !.purpose = NetworkPurpose(network_name)]
    /\ UNCHANGED <<shareVars, ctx, nodes, ids, proofs, issued, files, now>>

SaveZeroId(z, path) ==
    /\ files' = [files EXCEPT ![path] = save_zero_id(ids[z].id, path, @)]
    /\ zlast' = [ZeroCall("save_zero_id") EXCEPT
                    !.path = path, !.on = z, !.id = ids[z].id,
                    !.msg = IF CanCreate(path) THEN "Saved ZeroID"
                            ELSE "Error: Cannot save ZeroID"]
    /\ UNCHANGED <<shareVars, ctx, nodes, ids, proofs, issued, now>>

SaveZeroKey(n, path) ==
    /\ files' = [files EXCEPT ![path] = save_zero_key(nodes[n].key, path, @)]
    /\ zlast' = [ZeroCall("save_zero_key") EXCEPT
                    !.path = path, !.on = n, !.key = nodes[n].key,
                    !.msg = IF CanCreate(path) THEN "Saved verification key"
                            ELSE "Error: Cannot save key"]
    /\ UNCHANGED <<shareVars, ctx, nodes, ids, proofs, issued, now>>

\* zid = load_zero_id(path): the record returned is in memory from then on.
LoadZeroId(path) ==
    \E v \in MisreadVersions :
        LET zid == load_zero_id(files[path], v) IN
        /\ zlast' = [ZeroCall("load_zero_id") EXCEPT
                        !.path = path, !.id = zid,
                        !.msg = IF files[path].holds = "nothing"
                                THEN "Error: Cannot load ZeroID"
                                ELSE "Loaded ZeroID"]
        /\ ids' = IF Len(ids) < MaxIds THEN Append(ids, Made(zid, 0, <<>>)) ELSE ids
        /\ UNCHANGED <<shareVars, ctx, nodes, proofs, issued, files, now>>

LoadZeroKey(path) ==
    \E t \in MisreadTimes :
        /\ zlast' = [ZeroCall("load_zero_key") EXCEPT
                        !.path = path, !.key = load_zero_key(files[path], t),
                        !.msg = IF files[path].holds = "nothing"
                                THEN "Error: Cannot load key"
                                ELSE "Loaded verification key"]
        /\ UNCHANGED <<shareVars, ctx, nodes, ids, proofs, issued, files, now>>

\* -------------------------------------------------------- specifications
\* The context of main, no identity made yet.
InitIdentity ==
    /\ ShareIdle
    /\ ctx \in Contexts
    /\ nodes = <<>>
    /\ ids = <<>>
    /\ proofs = <<>>
    /\ issued = <<>>
    /\ files = [p \in Paths |-> NoFile]
    /\ now = 0
    /\ zlast = NoZeroCall
NextIdentity ==
    \/ Tick
    \/ \E device_name \in DeviceNames, rnd \in RandomOutcomes :
          CreateZeroId(device_name, rnd)
    \/ \E from \in DOMAIN ids, purpose \in Purposes : DeriveZeroId(from, purpose)
SpecIdentity == InitIdentity /\ [][NextIdentity]_vars

\* main after blueshare_init_device(&ctx, "Alice-Phone").
InitDevice ==
    /\ ShareIdle
    /\ ctx \in Contexts
    /\ \E rnd \in RandomOutcomes :
          nodes = <<blueshare_init_device(ctx, "Alice-Phone", rnd, 0)>>
    /\ ids = IdsOf(nodes[1])
    /\ proofs = <<>>
    /\ issued = <<>>
    /\ files = [p \in Paths |-> NoFile]
    /\ now = 0
    /\ zlast = NoZeroCall

NextProof ==
    \/ \E rnd \in RandomOutcomes : CreateChallenge(rnd)
    \/ \E on \in DOMAIN ids : CreateProof(on)
    \/ \E from \in DOMAIN proofs, on \in DOMAIN ids, flip \in 0..ArrayBytes :
          VerifyProof(from, on, flip)
    \/ \E n \in DOMAIN nodes, rnd \in RandomOutcomes : Authenticate(n, rnd)
    \/ \E n \in DOMAIN nodes, network_name \in NetworkNames, rnd \in RandomOutcomes :
          JoinNetwork(n, network_name, rnd)
SpecProof == InitDevice /\ [][NextProof]_vars

\* The calls that authenticate, at any time after the device's key was issued.
NextExpiry ==
    \/ Tick
    \/ Elapse
    \/ \E rnd \in RandomOutcomes : CreateChallenge(rnd)
    \/ \E on \in DOMAIN ids : CreateProof(on)
    \/ \E from \in DOMAIN proofs, on \in DOMAIN ids : VerifyProof(from, on, 0)
    \/ \E n \in DOMAIN nodes, rnd \in RandomOutcomes : Authenticate(n, rnd)
SpecExpiry == InitDevice /\ [][NextExpiry]_vars

NextStore ==
    \/ \E z \in DOMAIN ids, path \in Paths : SaveZeroId(z, path)
    \/ \E n \in DOMAIN nodes, path \in Paths : SaveZeroKey(n, path)
    \/ \E path \in Paths : LoadZeroId(path)
    \/ \E path \in Paths : LoadZeroKey(path)
SpecStore == InitDevice /\ [][NextStore]_vars

\* -------------------------------------------------------------- zero.c main
\* The four saves of main, in order.
MainSaves ==
    <<[kind |-> "zero_id_t", n |-> 1, path |-> "alice.zid"],
      [kind |-> "zero_key_t", n |-> 1, path |-> "alice.zid.key"],
      [kind |-> "zero_id_t", n |-> 2, path |-> "bob.zid"],
      [kind |-> "zero_key_t", n |-> 2, path |-> "bob.zid.key"]>>

\* generate_secure_salt(ctx.master_key, ...); generate_secure_salt(ctx.context_salt, ...)
ZeroMainContext ==
    /\ pc.at = "context"
    /\ \E rnd \in RandomOutcomes :
          ctx' = IF pc.i = 1 THEN [ctx EXCEPT !.master_key = RAND_bytes(rnd)]
                 ELSE [ctx EXCEPT !.context_salt = RAND_bytes(rnd)]
    /\ pc' = IF pc.i = 1 THEN At("context", 2) ELSE At("init", 1)
    /\ UNCHANGED <<devices, session, last, gate, nodes, ids, proofs, issued,
                   files, now, zlast>>

\* alice = blueshare_init_device(&ctx, "Alice-Phone"); bob = ...
ZeroMainInitDevice ==
    /\ pc.at = "init"
    /\ \E rnd \in RandomOutcomes :
          LET device == blueshare_init_device(
                  ctx, IF pc.i = 1 THEN "Alice-Phone" ELSE "Bob-Laptop", rnd, now) IN
          /\ nodes' = Append(nodes, device)
          /\ ids' = ids \o IdsOf(device)
          /\ zlast' = [ZeroCall("blueshare_init_device") EXCEPT
                          !.on = pc.i, !.id = device.zid, !.key = device.key]
    /\ pc' = IF pc.i = 1 THEN At("init", 2) ELSE At("save", 1)
    /\ UNCHANGED <<devices, session, last, gate, ctx, proofs, issued, files, now>>

\* save_zero_id(&alice.zid, "alice.zid"); save_zero_key(&alice.key, ...); ...
ZeroMainSave ==
    /\ pc.at = "save"
    /\ LET save == MainSaves[pc.i]
           device == nodes[save.n]
       IN  IF save.kind = "zero_id_t"
           THEN /\ files' = [files EXCEPT
                                ![save.path] = save_zero_id(device.zid, save.path, @)]
                /\ zlast' = [ZeroCall("save_zero_id") EXCEPT
                                !.path = save.path, !.on = save.n, !.id = device.zid,
                                !.msg = "Saved ZeroID"]
           ELSE /\ files' = [files EXCEPT
                                ![save.path] = save_zero_key(device.key, save.path, @)]
                /\ zlast' = [ZeroCall("save_zero_key") EXCEPT
                                !.path = save.path, !.on = save.n, !.key = device.key,
                                !.msg = "Saved verification key"]
    /\ pc' = IF pc.i < 4 THEN At("save", pc.i + 1) ELSE At("authenticate", 1)
    /\ UNCHANGED <<devices, session, last, gate, ctx, nodes, ids, proofs, issued, now>>

\* alice_auth = blueshare_authenticate(&ctx, &alice); bob_auth = ...
ZeroMainAuthenticate ==
    /\ pc.at = "authenticate"
    /\ \E rnd \in RandomOutcomes :
          zlast' = [ZeroCall("blueshare_authenticate") EXCEPT
                       !.ret = blueshare_authenticate(ctx, nodes[pc.i], rnd, now),
                       !.on = pc.i]
    /\ pc' = IF pc.i = 1 THEN At("authenticate", 2) ELSE At("join", 1)
    /\ UNCHANGED <<devices, session, last, gate, ctx, nodes, ids, proofs, issued,
                   files, now>>

\* alice_joined = blueshare_join_network(&ctx, &alice, "blueshare-mesh-001");
\* bob_joined = ...; the summary is printed; return 0.
ZeroMainJoinNetwork ==
    /\ pc.at = "join"
    /\ \E rnd \in RandomOutcomes :
          zlast' = [ZeroCall("blueshare_join_network") EXCEPT
                       !.ret = blueshare_join_network(ctx, nodes[pc.i],
                                   "blueshare-mesh-001", rnd, now),
                       !.on = pc.i,
                       !.purpose = NetworkPurpose("blueshare-mesh-001")]
    /\ pc' = IF pc.i = 1 THEN At("join", 2) ELSE At("done", 0)
    /\ UNCHANGED <<devices, session, last, gate, ctx, nodes, ids, proofs, issued,
                   files, now>>

\* generate_secure_salt: RAND_bytes does not return 1, exit(1).  Every step
\* of main but the saves draws random bytes.
ZeroMainExit ==
    /\ pc.at \in {"context", "init", "authenticate", "join"}
    /\ pc' = At("exit", 1)
    /\ zlast' = [ZeroCall("generate_secure_salt") EXCEPT
                    !.msg = "Error: Failed to generate secure salt"]
    /\ UNCHANGED <<devices, session, last, gate, ctx, nodes, ids, proofs, issued,
                   files, now>>

\* main after zero_context_t ctx = {0}; strcpy(ctx.algorithm, "SHA256-HMAC").
InitZeroMain ==
    /\ devices = <<>>
    /\ session = NewSession(0)
    /\ pc = At("context", 1)
    /\ last = NoCall
    /\ gate = NoGate
    /\ ctx = zero_context_t("SHA256-HMAC", ZeroArray, ZeroArray)
    /\ nodes = <<>>
    /\ ids = <<>>
    /\ proofs = <<>>
    /\ issued = <<>>
    /\ files = [p \in {MainSaves[i].path : i \in DOMAIN MainSaves} |-> NoFile]
    /\ now = 0
    /\ zlast = NoZeroCall
NextZeroMain ==
    \/ ZeroMainContext
    \/ ZeroMainInitDevice
    \/ ZeroMainSave
    \/ ZeroMainAuthenticate
    \/ ZeroMainJoinNetwork
    \/ ZeroMainExit
SpecZeroMain == InitZeroMain /\ [][NextZeroMain]_vars


\* ------------------------------------------------------------------ claims
SomeConsent(st) == \E i \in DOMAIN devices : devices[i].consent = st
AllConsent(st) == \A i \in DOMAIN devices : devices[i].consent = st
Votes(st) == Cardinality({i \in DOMAIN devices : devices[i].consent = st})
Verified == last.op = "verify_network_consensus"

\* C1: if at least one device's consent state is NO, verify_network_consensus
\* does not accept the session (it returns 0 by the REJECTED branch), whatever
\* the number of YES, MAYBE and EPSILON votes.
C1_AnyNoRejects ==
    (Verified /\ SomeConsent(STATE_NO)) => (last.ret = 0 /\ last.msg = "REJECTED")

\* A session with one NO vote and a YES majority has been put to the vote.
C1_Witness ==
    /\ Verified
    /\ Votes(STATE_NO) = 1
    /\ Votes(STATE_YES) = 2
    /\ session.device_count = 3
    /\ last.ret = 0

\* C2: verify_network_consensus accepts exactly when NO-count = 0 and
\* YES-count >= ceiling(device_count / 2).
C2_AcceptsExactlyOnCeilingMajority ==
    Verified =>
        (last.ret = 1 <=>
            (Votes(STATE_NO) = 0
             /\ Votes(STATE_YES) >= (session.device_count + 1) \div 2))

\* C3: a session of one or more devices, all of them EPSILON, is never
\* accepted: the result is PENDING.
C3_AllEpsilonIsPending ==
    (Verified /\ session.device_count >= 1 /\ AllConsent(STATE_EPSILON))
        => (last.ret = 0 /\ last.msg = "PENDING")

\* What verify_network_consensus returns to its caller for a session one
\* device of which voted NO.
RejectedReturn ==
    verify_network_consensus(
        NewSession(1),
        <<[NewDevice(ROLE_CLIENT, -65, FZero, NoBytes, NoBytes)
              EXCEPT !.consent = STATE_NO]>>)

\* C4: the caller can tell PENDING (no NO vote, too few YES votes) from
\* REJECTED: the value returned by the PENDING branch is not the value
\* returned for a rejected session.
C4_PendingDistinctFromRejected ==
    (Verified /\ last.msg = "PENDING") => last.ret # RejectedReturn

\* C5 (invariant C1 of the data model): is_active = 1 only once consensus has
\* returned accepted and the compliance audit has returned PASS.
C5_ActiveOnlyAfterBothGates ==
    session.is_active = 1 => (gate.consensus = 1 /\ gate.compliance = 1)

\* C6: verify_constitutional_compliance returns PASS only if transparency,
\* fairness and privacy were all set on the session before the call.
C6_PassNeedsAllThreeFlags ==
    [][(last'.op = "verify_constitutional_compliance" /\ last'.ret = 1)
        => (/\ session.transparency_verified = 1
            /\ session.fairness_verified = 1
            /\ session.privacy_verified = 1)]_vars

\* C7: with no Host in the device list determine_topology reports
\* no-hosts-available and returns no topology, STAR included.
C7_NoHostsIsAnError ==
    (last.op = "determine_topology" /\ HostCount(devices) = 0)
        => last.ret \notin Topologies

\* The table of the topology selector, first match wins.
TopologyTable(device_count, host_count) ==
    CASE device_count <= 3 /\ host_count = 1 -> TOPOLOGY_STAR
      [] ~(device_count <= 3 /\ host_count = 1)
         /\ device_count <= 5 /\ host_count <= 2 -> TOPOLOGY_BUS
      [] ~(device_count <= 5 /\ host_count <= 2) /\ host_count >= 2 -> TOPOLOGY_MESH
      [] OTHER -> TOPOLOGY_HYBRID

\* C8: for host_count >= 1, determine_topology returns the topology the table
\* gives for (device_count, host_count); HYBRID arises only for one host and
\* more than five devices.
C8_TopologyTable ==
    (last.op = "determine_topology" /\ HostCount(devices) >= 1) =>
        /\ last.ret = TopologyTable(last.arg, HostCount(devices))
        /\ (last.ret = TOPOLOGY_HYBRID => (HostCount(devices) = 1 /\ last.arg > 5))
        /\ ((last.arg = 3 /\ HostCount(devices) = 1) => last.ret = TOPOLOGY_STAR)
        /\ ((last.arg = 4 /\ HostCount(devices) = 1) => last.ret = TOPOLOGY_BUS)
        /\ ((last.arg = 6 /\ HostCount(devices) = 2) => last.ret = TOPOLOGY_MESH)

\* Six devices, two of them hosts: MESH.
C8_Witness ==
    /\ last.op = "determine_topology"
    /\ last.arg = 6
    /\ HostCount(devices) = 2
    /\ last.ret = TOPOLOGY_MESH

\* The sum of bandwidth_mbps over the devices with role Host, in list order.
RECURSIVE HostSum(_)
HostSum(devs) ==
    IF devs = <<>> THEN FZero
    ELSE LET front == SubSeq(devs, 1, Len(devs) - 1)
             d == devs[Len(devs)]
         IN  IF d.role = ROLE_HOST THEN FAdd(HostSum(front), d.bandwidth_mbps)
             ELSE HostSum(front)

\* C9 (invariant C2 of the data model): after calculate_fair_bandwidth,
\* fair_share_mbps * device_count = 2 * total_bandwidth_mbps, the total being
\* the sum over the hosts alone, for every device set, the empty one included.
C9_FairShareTimesCount ==
    last.op = "calculate_fair_bandwidth" =>
        /\ FEq(session.total_bandwidth_mbps, HostSum(devices))
        /\ FEq(FMul(session.fair_share_mbps, FromNat(session.device_count)),
               FMul(FromNat(2), session.total_bandwidth_mbps))

\* The sum of balance_usd over the devices, in list order, from 0.0.
RECURSIVE BalanceSum(_)
BalanceSum(devs) ==
    IF devs = <<>> THEN FZero
    ELSE FAdd(BalanceSum(SubSeq(devs, 1, Len(devs) - 1)), devs[Len(devs)].balance_usd)

Usage(d) == U64Add(d.bytes_sent, d.bytes_received)

\* C10 (invariant C3 of the data model): every run of calculate_cost_sharing
\* leaves total_cost_usd equal to the sum of the balances in list order and
\* gives devices of equal usage equal balances; a run on a session whose cost
\* was calculated before leaves the total and every device as they were.
C10_CostRoundTrip ==
    [][last'.op = "calculate_cost_sharing" =>
        /\ FEq(session'.total_cost_usd, BalanceSum(devices'))
        /\ \A i, j \in DOMAIN devices' :
              Usage(devices'[i]) = Usage(devices'[j])
                  => devices'[i].balance_usd = devices'[j].balance_usd
        /\ (session.transparency_verified = 1 =>
              (devices' = devices /\ session'.total_cost_usd = session.total_cost_usd))
      ]_vars

\* The cost of a session of several devices with different, non-zero
\* balances has been calculated again after its compliance audit passed.
C10_Witness ==
    /\ last.op = "calculate_cost_sharing"
    /\ gate.compliance = 1
    /\ Len(devices) >= 2
    /\ devices[1].balance_usd # devices[2].balance_usd
    /\ \A i \in DOMAIN devices : devices[i].balance_usd.m > 0
    /\ FEq(session.total_cost_usd, BalanceSum(devices))

\* The edges of the payment state machine: PENDING -> AUTHORIZED -> PROCESSING
\* -> SETTLED, and FAILED from every state that is not terminal.
TerminalStates == {PAYMENT_SETTLED, PAYMENT_FAILED}
PaymentEdges ==
    {<<PAYMENT_PENDING, PAYMENT_AUTHORIZED>>,
     <<PAYMENT_AUTHORIZED, PAYMENT_PROCESSING>>,
     <<PAYMENT_PROCESSING, PAYMENT_SETTLED>>}
    \cup {<<p, PAYMENT_FAILED>> : p \in PaymentStates \ TerminalStates}

\* C11: a device's payment_status changes only along an edge of the payment
\* state machine; SETTLED is entered from PROCESSING alone, never from PENDING.
C11_PaymentFollowsEdges ==
    [][\A i \in DOMAIN devices :
          devices'[i].payment_status # devices[i].payment_status
              => <<devices[i].payment_status, devices'[i].payment_status>>
                     \in PaymentEdges]_vars

\* C12: SETTLED and FAILED are terminal: no operation, another call of
\* process_lightning_payment on the device included, changes a payment_status
\* that is SETTLED or FAILED.
C12_TerminalStatesStay ==
    [][\A i \in DOMAIN devices :
          devices[i].payment_status \in TerminalStates
              => devices'[i].payment_status = devices[i].payment_status]_vars

\* The zid a stored proof was made over, and the zid it was last verified
\* against.
ProvedOver(k) == ids[proofs[k].on].id
VerifiedAgainst == ids[zlast.on].id

\* C15: a proof made by create_proof over a zid and a whole challenge is
\* accepted by verify_proof against that zid, and is rejected once any single
\* byte of proof.proof has been changed.
C15_ProofRoundTrip ==
    (zlast.op = "verify_proof" /\ proofs[zlast.from].on = zlast.on)
        => (zlast.ret = 1 <=> zlast.flip = 0)

\* A proof over the authentication id, its last byte changed, has been
\* verified against the authentication id and rejected.
C15_Witness ==
    /\ zlast.op = "verify_proof"
    /\ proofs[zlast.from].on = zlast.on
    /\ zlast.on = 2
    /\ zlast.flip = ArrayBytes
    /\ zlast.ret = 0

\* C16: a proof made over a zid X is rejected by verify_proof against every
\* zid Y whose hash differs from X's, whatever the challenge.
C16_ProofBoundToIdentity ==
    (zlast.op = "verify_proof" /\ ProvedOver(zlast.from).hash # VerifiedAgainst.hash)
        => zlast.ret = 0

\* An unaltered proof over the authentication id has been verified against
\* the network-joining id of the same device.
C16_Witness ==
    /\ zlast.op = "verify_proof"
    /\ proofs[zlast.from].on = 2
    /\ zlast.on = 3
    /\ zlast.flip = 0
    /\ ids[2].id.salt = ids[3].id.salt
    /\ zlast.ret = 0

\* C17: derive_zero_id gives the same hash for the same context, parent hash
\* and purpose at any time, different hashes for different purposes, a hash
\* that is not the parent's, and the parent's salt and version; it changes
\* neither the context nor any zid that existed.
C17_DerivationDeterministic ==
    [][zlast'.op = "derive_zero_id" =>
        LET d == ids'[Len(ids')]
            parent == ids[d.from].id
            Sibling(i) == ids[i].from # 0 /\ ids[ids[i].from].id.hash = parent.hash
        IN  /\ \A i \in DOMAIN ids :
                  (Sibling(i) /\ ids[i].purpose = d.purpose)
                      => ids[i].id.hash = d.id.hash
            /\ \A i \in DOMAIN ids :
                  (Sibling(i) /\ ids[i].purpose # d.purpose)
                      => ids[i].id.hash # d.id.hash
            /\ d.id.hash # parent.hash
            /\ d.id.salt = parent.salt
            /\ d.id.version = parent.version
            /\ ctx' = ctx
            /\ SubSeq(ids', 1, Len(ids)) = ids
      ]_vars

\* One zid has been derived twice for the same purpose, at different times.
C17_Witness ==
    /\ zlast.op = "derive_zero_id"
    /\ Len(ids) = 3
    /\ ids[2].from = 1
    /\ ids[3].from = 1
    /\ ids[2].purpose = ids[3].purpose
    /\ ids[2].id.created # ids[3].id.created
    /\ ids[2].id.hash = ids[3].id.hash

\* C18 (invariant ZK1): save_zero_key to a path that holds a ZeroID is
\* rejected: it is not reported as saved and the ZeroID stored at the path
\* stays as it was.
C18_KeyNeverCollocated ==
    [][(zlast'.op = "save_zero_key" /\ files[zlast'.path].holds = "zero_id_t")
          => (files'[zlast'.path] = files[zlast'.path]
              /\ zlast'.msg # "Saved verification key")]_vars

\* A file load_zero_id may accept: written from a zero_id_t of version 1.
ValidIdArtifact(file) == file.holds = "zero_id_t" /\ file.id.version = 1
ValidKeyArtifact(file) == file.holds = "zero_key_t"

\* C19: load_zero_id and load_zero_key report a load only of an artifact of
\* the right size (and, for a ZeroID, of version 1); a missing artifact, one
\* of the other structure or one of another version is not reported as loaded.
C19_LoadRejectsCorruptArtifacts ==
    /\ (zlast.op = "load_zero_id" /\ ~ValidIdArtifact(files[zlast.path]))
          => zlast.msg # "Loaded ZeroID"
    /\ (zlast.op = "load_zero_key" /\ ~ValidKeyArtifact(files[zlast.path]))
          => zlast.msg # "Loaded verification key"

\* C20: verify_proof accepts a proof only if the challenge embedded in it is
\* the challenge issued for this attempt (the one create_challenge gave last).
C20_AcceptsOnlyIssuedChallenge ==
    (zlast.op = "verify_proof" /\ zlast.ret = 1) => zlast.proof.challenge = issued

\* C21: request_device_consent on the device main sets up with .rssi = -95
\* (Dave, "Poor signal - will trigger MAYBE") records STATE_MAYBE, not
\* STATE_YES: the vote follows the signal strength written in the initialiser
\* and is not forced to YES by the 8-bit unsigned field that stores it.
C21_WeakSignalIsMaybe ==
    (last.op = "request_device_consent" /\ devices[last.arg].rssi = U8(-95))
        => last.ret = STATE_MAYBE

\* The value process_lightning_payment would store if the conversion of the
\* product to satoshi rounded to the nearest integer, ties to even.
RoundHalfEven(f) ==
    IF f.k # "num" \/ f.m = 0 \/ f.e >= 0 THEN DoubleToU64(f)
    ELSE IF 0 - f.e > MantBits THEN U64(0, 0, 0, 0)
    ELSE LET q == f.m \div Pow2(0 - f.e)
             r == f.m % Pow2(0 - f.e)
             half == Pow2(0 - f.e - 1)
         IN  IF r > half \/ (r = half /\ q % 2 = 1)
             THEN U64(q + 1, 0, 0, 0) ELSE U64(q, 0, 0, 0)

\* C22: the satoshi amount of a payment is the product amount_usd *
\* btc_per_usd * satoshi_per_btc rounded half-to-even, never truncated.
C22_SatoshiRoundedHalfEven ==
    (last.op = "process_lightning_payment")
        => last.sat = RoundHalfEven(FMul(FMul(devices[last.arg].balance_usd,
                                               btc_per_usd), satoshi_per_btc))

\* The device that holds the zero_id_t numbered `on`.
HolderOf(on) == {n \in DOMAIN nodes : \E k \in 1..3 : IdsOf(nodes[n])[k].id = ids[on].id}
Expired(n) == nodes[n].key.expiration < now

\* C23: a key expires 30 days after it was issued, and an authentication or
\* verification made for a device whose key has expired is rejected.
C23_ExpiredKeyRejected ==
    /\ \A n \in DOMAIN nodes :
          nodes[n].key.expiration = nodes[n].key.timestamp + 30 * 24 * 60 * 60
    /\ (zlast.op = "blueshare_authenticate" /\ Expired(zlast.on)) => zlast.ret = 0
    /\ (zlast.op = "verify_proof" /\ \E n \in HolderOf(zlast.on) : Expired(n))
          => zlast.ret = 0

\* The phase of main a call belongs to.
PhaseOf(op) ==
    CASE op = "request_device_consent" -> 1
      [] op = "verify_network_consensus" -> 1
      [] op = "determine_topology" -> 2
      [] op = "calculate_fair_bandwidth" -> 3
      [] op = "calculate_cost_sharing" -> 4
      [] op = "process_lightning_payment" -> 5
      [] op = "verify_constitutional_compliance" -> 6
      [] OTHER -> 0

\* C24: within main's session the phases run in the order consensus,
\* topology, bandwidth, cost, payment, compliance: a call never belongs to an
\* earlier phase than the call before it, topology, bandwidth, cost and
\* compliance are each called at most once and each device is asked and
\* charged at most once, a payment is made only after calculate_cost_sharing
\* (directly or after other payments), and compliance is verified only after
\* the cost calculation and the payments.
C24_PhasesInOrder ==
    [][LET a == PhaseOf(last.op)
           b == PhaseOf(last'.op)
       IN  /\ b >= a
           /\ b = a => \/ /\ last'.op = last.op
                           /\ b \in {1, 5}
                           /\ last.op # "verify_network_consensus"
                           /\ last'.arg > last.arg
                        \/ /\ last.op = "request_device_consent"
                           /\ last'.op = "verify_network_consensus"
           /\ b \in 2..4 => a = b - 1
           /\ b = 2 => last.op = "verify_network_consensus"
           /\ b \in {5, 6} => a \in {4, 5}]_vars

\* main has run to its end over four devices: every phase has been through.
C24_Witness ==
    /\ pc.at = "done"
    /\ Len(devices) = 4
    /\ last.op = "verify_constitutional_compliance"
    /\ \A i \in 2..4 : devices[i].payment_status = PAYMENT_SETTLED

\* The orders a list of n devices can be linked in.
Orders(n) == {f \in [1..n -> 1..n] : \A i, j \in 1..n : f[i] = f[j] => i = j}
Relinked(devs, f) == [i \in 1..Len(devs) |-> devs[f[i]]]

\* C25: the result of verify_network_consensus depends only on the votes and
\* on device_count, not on the order of the device list: it is the result for
\* every other order of the same devices; and the call changes no device's
\* consent and nothing of the session.
C25_ConsensusOrderIndependent ==
    [][last'.op = "verify_network_consensus"
          => /\ devices' = devices
             /\ session' = session
             /\ \A f \in Orders(Len(devices)) :
                   verify_network_consensus(session, Relinked(devices, f))
                       = last'.ret]_vars

\* A list of three devices with three different votes has been put to the vote.
C25_Witness ==
    /\ Verified
    /\ Len(devices) = 3
    /\ devices[1].consent = STATE_MAYBE
    /\ devices[2].consent = STATE_YES
    /\ devices[3].consent = STATE_NO
    /\ last.ret = 0

\* C26: once main has filled master_key and context_salt the context is only
\* read (no later step of main changes ctx), and on every exit of main, the
\* return and the exit(1) of generate_secure_salt, master_key has been
\* overwritten with zeros.
C26_ContextReadOnlyThenZeroised ==
    [][/\ pc.at # "context" => ctx' = ctx
       /\ pc'.at \in {"done", "exit"} => ctx'.master_key = ZeroArray]_vars

\* C27: a load from a path returns the record of the most recent save of the
\* same kind to that path.  Step by step: after a save that reports success,
\* load_zero_id (load_zero_key) of the path returns the record saved, and a
\* record of the other kind saved to the path earlier is still what its load
\* returns.
C27_LoadReturnsLastSave ==
    [][LET p == zlast'.path IN
       /\ (zlast'.op = "save_zero_id" /\ zlast'.msg = "Saved ZeroID")
             => /\ \A v \in MisreadVersions : load_zero_id(files'[p], v) = zlast'.id
                /\ files[p].holds = "zero_key_t"
                      => \A t \in MisreadTimes :
                            load_zero_key(files'[p], t) = files[p].key
       /\ (zlast'.op = "save_zero_key" /\ zlast'.msg = "Saved verification key")
             => /\ \A t \in MisreadTimes : load_zero_key(files'[p], t) = zlast'.key
                /\ files[p].holds = "zero_id_t"
                      => \A v \in MisreadVersions :
                            load_zero_id(files'[p], v) = files[p].id]_vars

\* C28: from a session whose flags are all clear, compliance can return PASS
\* only if calculate_cost_sharing has run before.  Step by step: only
\* calculate_cost_sharing changes transparency_verified or fairness_verified,
\* no operation clears either of them once it is set, and
\* verify_constitutional_compliance returns PASS only for a session in which
\* both were set before the call.
C28_OnlyCostSharingSetsFlags ==
    [][/\ (session'.transparency_verified # session.transparency_verified
           \/ session'.fairness_verified # session.fairness_verified)
             => last'.op = "calculate_cost_sharing"
       /\ session.transparency_verified = 1 => session'.transparency_verified = 1
       /\ session.fairness_verified = 1 => session'.fairness_verified = 1
       /\ (last'.op = "verify_constitutional_compliance" /\ last'.ret = 1)
             => (session.transparency_verified = 1
                 /\ session.fairness_verified = 1)]_vars

\* Compliance has passed on a session of two devices that has been through
\* consent, consensus, bandwidth allocation, cost calculation and a payment.
C28_Witness ==
    /\ last.op = "verify_constitutional_compliance"
    /\ last.ret = 1
    /\ gate.consensus = 1
    /\ Len(devices) = 2
    /\ devices[2].payment_status = PAYMENT_SETTLED
    /\ devices[1].consent = STATE_YES
    /\ session.total_bandwidth_mbps # FZero
    /\ session.privacy_verified = 1

\* a <= b for two uint64_t, and for two finite non-negative doubles.
U64Le(a, b) ==
    \/ a = b
    \/ \E t \in 1..4 : a[t] < b[t] /\ \A i \in (t + 1)..4 : a[i] = b[i]
FLe(a, b) ==
    LET la == a.e + BitLen(a.m)
        lb == b.e + BitLen(b.m)
        low == IF a.e < b.e THEN a.e ELSE b.e
    IN  \/ a.m = 0
        \/ b.m # 0 /\ la < lb
        \/ b.m # 0 /\ la = lb /\ a.m * Pow2(a.e - low) <= b.m * Pow2(b.e - low)

\* C29: the cost allocated by calculate_cost_sharing is monotone in usage: a
\* device that sent and received no more than another is charged no more,
\* for all 64-bit counter values; in particular bytes_sent + bytes_received
\* is not less than bytes_sent.
C29_CostMonotoneInUsage ==
    last.op = "calculate_cost_sharing" =>
        /\ \A i \in DOMAIN devices :
              U64Le(devices[i].bytes_sent,
                    U64Add(devices[i].bytes_sent, devices[i].bytes_received))
        /\ \A i, j \in DOMAIN devices :
              (U64Le(devices[i].bytes_sent, devices[j].bytes_sent)
               /\ U64Le(devices[i].bytes_received, devices[j].bytes_received))
                  => FLe(devices[i].balance_usd, devices[j].balance_usd)

=============================================================================
